---- MODULE Spec2Model ----
(***************************************************************************)
(* A model of the two command-line flows of the pr-review skill:           *)
(*   prepare-worktree.py  (git worktree preparation for a PR review)       *)
(*   summarize-pr.py      (paginated GraphQL fetch and markdown summary)   *)
(* Text is modelled as sequences of one-character strings wherever the     *)
(* code looks inside it (substring tests, split, slicing, int parsing).    *)
(***************************************************************************)
EXTENDS Integers, Sequences, FiniteSets, TLC

VARIABLES
    pc,          \* position of the running script ("idle" before, "done" after)
    argv,        \* sys.argv, the script name first
    stdout,      \* lines printed to standard output by the current run
    stderr,      \* lines printed to standard error by the current run
    exitCode,    \* -1 while running, else the process exit status
    online,      \* the hosting CLI and the remote are reachable
    remotes,     \* repo.remotes: sequence of [name, url]
    ghRepo,      \* the repository as `gh repo view` names it: [owner, name]
    dirs,        \* directories existing under the repository root
    readme,      \* content of review-notes/<branch>/README.md
    worktree,    \* what is at git-worktrees/<branch>
    untracked,   \* the working tree holds an untracked file
    branchHead,  \* commit of the local PR branch, 0 when it does not exist
    prHead,      \* commit of refs/pull/<n>/head on the remote
    loc,         \* local variables of prepare_worktree
    ops,         \* git / filesystem mutations attempted by the current run
    start,       \* the environment as it was when the current run started
    prev,        \* the run that ended right before the current one started
    runs,        \* number of invocations so far
    environ,     \* os.environ: GITHUB_TOKEN and GH_TOKEN
    ghAuth,      \* what `gh auth token` does: [kind, out]
    server,      \* the PR on the hosting side: the pages of each collection
    token,       \* get_pr_data: token
    variables,   \* get_pr_data: the query variables (cursor 0 is None)
    pr_data,     \* get_pr_data: pr_data
    all_nodes,   \* get_pr_data: all_files / all_comments / all_reviews / all_threads
    page_info,   \* get_pr_data: the page info of the collection being paginated
    unresolved,  \* main: unresolved_threads
    requests     \* the query variables of every request sent, in order

wtVars == <<online, remotes, ghRepo, dirs, readme, worktree, untracked, branchHead,
            prHead, loc, ops, start, prev, runs>>

procVars == <<pc, argv, stdout, stderr, exitCode>>

prEnv == <<environ, ghAuth, server>>

prLoc == <<token, variables, pr_data, all_nodes, page_info, unresolved, requests>>

vars == <<pc, argv, stdout, stderr, exitCode, online, remotes, ghRepo, dirs, readme,
          worktree, untracked, branchHead, prHead, loc, ops, start, prev, runs,
          environ, ghAuth, server, token, variables, pr_data, all_nodes, page_info,
          unresolved, requests>>

----------------------------------------------------------------------------
(* Bounds *)

MaxRuns == 2

MaxCommit == 2

----------------------------------------------------------------------------
(* Text helpers *)

Last(s) == s[Len(s)]

\* Python: pat in text
Contains(text, pat) ==
    \E i \in 0..(Len(text) - Len(pat)) :
        \A j \in 1..Len(pat) : text[i + j] = pat[j]

IsSpace(c) == c \in {" ", "\n"}

RECURSIVE LStrip(_)
LStrip(s) ==
    IF s # <<>> /\ IsSpace(s[1]) THEN LStrip(Tail(s)) ELSE s

RECURSIVE RStrip(_)
RStrip(s) ==
    IF s # <<>> /\ IsSpace(s[Len(s)]) THEN RStrip(SubSeq(s, 1, Len(s) - 1)) ELSE s

\* Python: s.strip()
Strip(s) == RStrip(LStrip(s))

\* Python None where a string may stand: the one-element <<"None">>, which no text is
None == <<"None">>

Digits == {"0", "1", "2", "3", "4", "5", "6", "7", "8", "9"}

DigitVal(c) ==
    CASE c = "0" -> 0 [] c = "1" -> 1 [] c = "2" -> 2 [] c = "3" -> 3
      [] c = "4" -> 4 [] c = "5" -> 5 [] c = "6" -> 6 [] c = "7" -> 7
      [] c = "8" -> 8 [] c = "9" -> 9

Unsigned(s) == IF s # <<>> /\ s[1] \in {"+", "-"} THEN Tail(s) ELSE s

\* Python: int(s) returns (does not raise ValueError)
IsPyInt(s) ==
    LET u == Unsigned(Strip(s))
    IN  u # <<>> /\ \A i \in 1..Len(u) : u[i] \in Digits

RECURSIVE DecVal(_)
DecVal(u) ==
    IF u = <<>> THEN 0 ELSE 10 * DecVal(SubSeq(u, 1, Len(u) - 1)) + DigitVal(u[Len(u)])

\* Python: int(s), for s with IsPyInt(s)
PyInt(s) ==
    LET t == Strip(s)
    IN  IF t[1] = "-" THEN 0 - DecVal(Unsigned(t)) ELSE DecVal(Unsigned(t))

----------------------------------------------------------------------------
(* The environment of prepare-worktree.py *)

RepoDir == <<"/", "r">>

PlainDir == <<"/", "p">>

MissingDir == <<"/", "m">>

\* what Path(repo_path).exists() and Repo(repo_path) find
PathExists(p) == p \in {RepoDir, PlainDir}

IsGitRepo(p) == p = RepoDir

\* the PR known to the hosting side: gh pr view <n> --json headRefName,headRefOid
KnownPRs == {7}

TheBranch == "fix"

TheRepo == [owner |-> <<"o">>, name |-> <<"r">>]

GhPrView(n) == online /\ n \in KnownPRs

GhRepoView == online

Line(tag, msg) == [tag |-> tag, msg |-> msg]

ConflictMsg == "Worktree has uncommitted changes. Please commit or discard changes before recreating the worktree."

NoLoc == [pr_number |-> 0, branch_name |-> "", head_sha |-> 0, remote_name |-> ""]

NoPrev == [valid |-> FALSE, ok |-> FALSE, argv |-> <<>>, head |-> 0, prHead |-> 0]

NoStart == [worktree |-> "absent", untracked |-> FALSE, readme |-> "absent", branchHead |-> 0]

Snapshot == [worktree |-> worktree, untracked |-> untracked, readme |-> readme,
             branchHead |-> branchHead]

----------------------------------------------------------------------------
(* prepare-worktree.py: pure helpers *)

\* the test of line 73 on one remote URL
UrlMatches(url, owner, repo_name) ==
    \/ Contains(url, owner \o <<"/">> \o repo_name)
    \/ Contains(url, <<":">> \o owner \o <<"/">> \o repo_name)

RECURSIVE find_last_remote(_, _, _)
find_last_remote(rs, owner, repo_name) ==
    IF rs = <<>>
    THEN [raised |-> TRUE, value |-> "No remote found"]
    ELSE IF UrlMatches(rs[Len(rs)].url, owner, repo_name)
         THEN [raised |-> FALSE, value |-> rs[Len(rs)].name]
         ELSE find_last_remote(SubSeq(rs, 1, Len(rs) - 1), owner, repo_name)

\* find_remote_for_repo: the loop over repo.remotes, first match returns
RECURSIVE find_remote_for_repo(_, _, _)
find_remote_for_repo(rs, owner, repo_name) ==
    IF rs = <<>>
    THEN [raised |-> TRUE, value |-> "No remote found"]
    ELSE IF UrlMatches(rs[1].url, owner, repo_name)
         THEN [raised |-> FALSE, value |-> rs[1].name]
         ELSE find_remote_for_repo(Tail(rs), owner, repo_name)

\* "uncommitted changes" in str(e), for the exceptions the dirty check can raise
MentionsNothing(msg) == FALSE

MentionsUncommitted(msg) == msg = ConflictMsg

\* not readme_path.exists()
ReadmeAlwaysAbsent(content) == TRUE

ReadmeAbsent(content) == content = "absent"

\* worktree_path.exists()
WorktreeNeverExists(w) == FALSE

WorktreeExists(w) == w # "absent"

----------------------------------------------------------------------------
(* git, as prepare_worktree uses it *)

\* the PR branch is checked out in a registered working tree
CheckedOut(w) == w = "ok"

\* git worktree remove <path> --force succeeds on a registered working tree
GitWorktreeRemoveOk(w) == w = "ok"

\* git branch -D <branch>
GitBranchDeleteOk(head, w) == head # 0 /\ ~CheckedOut(w)

\* git fetch <remote> pull/<n>/head:<branch> (no forced update)
GitFetchOk(head, w) ==
    /\ online
    /\ ~(head # 0 /\ CheckedOut(w))
    /\ (head = 0 \/ head <= prHead)

\* git worktree add <path> <branch>
GitWorktreeAddOk(head, w) == w = "absent" /\ head # 0

----------------------------------------------------------------------------
(* The start values of summarize-pr.py's state *)

NoInfo == [hasNextPage |-> FALSE, endCursor |-> 0]

NoConnection == [nodes |-> <<>>, pageInfo |-> NoInfo]

NoData ==
    [number |-> 0, body |-> <<>>, files |-> NoConnection, comments |-> NoConnection,
     reviews |-> NoConnection, reviewThreads |-> NoConnection]

\* lines 218-226
NoCursors ==
    [owner |-> <<"o">>, repo |-> <<"r">>, number |-> 7,
     filesCursor |-> 0, threadsCursor |-> 0, commentsCursor |-> 0, reviewsCursor |-> 0]

NoLocals ==
    /\ token = None
    /\ variables = NoCursors
    /\ pr_data = NoData
    /\ all_nodes = <<>>
    /\ page_info = NoInfo
    /\ unresolved = <<>>
    /\ requests = <<>>

NoSummary ==
    /\ environ = [GITHUB_TOKEN |-> None, GH_TOKEN |-> None]
    /\ ghAuth = [kind |-> "fail", out |-> <<>>]
    /\ server = [pages |-> <<>>]
    /\ NoLocals

----------------------------------------------------------------------------
(* prepare-worktree.py: the run *)

Script == <<"w">>

WtArgvs ==
    { <<Script>>,
      <<Script, RepoDir>>,
      <<Script, RepoDir, <<"7">>>>,
      <<Script, RepoDir, <<" ", "7", "\n">>>>,
      <<Script, RepoDir, <<"8">>>>,
      <<Script, RepoDir, <<"-", "7">>>>,
      <<Script, RepoDir, <<"x">>>>,
      <<Script, RepoDir, <<>>>>,
      <<Script, PlainDir, <<"7">>>>,
      <<Script, MissingDir, <<"7">>>>,
      <<Script, RepoDir, <<"7">>, <<"7">>>> }

RemoteConfigs ==
    { <<[name |-> "origin", url |-> <<"g", ":", "o", "/", "r">>]>>,
      <<[name |-> "fork", url |-> <<"g", ":", "x", "/", "r">>],
        [name |-> "upstream", url |-> <<"h", "/", "o", "/", "r">>]>>,
      <<[name |-> "fork", url |-> <<"g", ":", "x", "/", "r">>]>> }

\* the except clause of main (lines 259-261)
ExitError(err, msg) ==
    /\ stderr' = Append(err, Line("Error", msg))
    /\ exitCode' = 1
    /\ pc' = "done"

Running(next) == /\ pc' = next /\ exitCode' = exitCode

InitWT ==
    /\ pc = "idle"
    /\ argv = <<>>
    /\ stdout = <<>>
    /\ stderr = <<>>
    /\ exitCode = -1
    /\ online \in BOOLEAN
    /\ remotes \in RemoteConfigs
    /\ ghRepo = TheRepo
    /\ dirs = {}
    /\ readme = "absent"
    /\ worktree \in {"absent", "broken"}
    /\ untracked = FALSE
    /\ branchHead \in 0..MaxCommit
    /\ prHead \in 1..MaxCommit
    /\ loc = NoLoc
    /\ ops = <<>>
    /\ start = NoStart
    /\ prev = NoPrev
    /\ runs = 0
    /\ NoSummary

\* the shell starts the script
WtInvoke ==
    /\ pc \in {"idle", "done"}
    /\ runs < MaxRuns
    /\ \E a \in WtArgvs : argv' = a
    /\ pc' = "main"
    /\ stdout' = <<>>
    /\ stderr' = <<>>
    /\ exitCode' = -1
    /\ loc' = NoLoc
    /\ ops' = <<>>
    /\ start' = Snapshot
    /\ prev' = IF pc = "done"
               THEN [valid |-> TRUE, ok |-> exitCode = 0, argv |-> argv,
                     head |-> branchHead, prHead |-> prHead]
               ELSE NoPrev
    /\ runs' = runs + 1
    /\ UNCHANGED <<online, remotes, ghRepo, dirs, readme, worktree, untracked, branchHead, prHead>>
    /\ UNCHANGED <<prEnv, prLoc>>

\* main, lines 248-254
WtMain ==
    /\ pc = "main"
    /\ IF Len(argv) # 3
       THEN /\ stderr' = Append(stderr, Line("Usage", "prepare-worktree.py <REPO_PATH> <PR_NUMBER>"))
            /\ exitCode' = 1
            /\ pc' = "done"
            /\ loc' = loc
       ELSE IF ~IsPyInt(argv[3])
       THEN /\ stderr' = Append(stderr, Line("Traceback", "ValueError: invalid literal for int()"))
            /\ exitCode' = 1
            /\ pc' = "done"
            /\ loc' = loc
       ELSE /\ loc' = [loc EXCEPT !.pr_number = PyInt(argv[3])]
            /\ Running("open")
            /\ stderr' = stderr
    /\ UNCHANGED <<argv, stdout, online, remotes, ghRepo, dirs, readme, worktree, untracked,
                   branchHead, prHead, ops, start, prev, runs>>
    /\ UNCHANGED <<prEnv, prLoc>>

\* prepare_worktree, lines 89-98
WtOpenRepo ==
    /\ pc = "open"
    /\ IF ~PathExists(argv[2])
       THEN ExitError(stderr, "Repository path does not exist")
       ELSE IF ~IsGitRepo(argv[2])
       THEN ExitError(stderr, "Not a valid git repository")
       ELSE Running("pr_info") /\ stderr' = stderr
    /\ UNCHANGED <<argv, stdout, loc>>
    /\ UNCHANGED <<online, remotes, ghRepo, dirs, readme, worktree, untracked, branchHead, prHead,
                   ops, start, prev, runs>>
    /\ UNCHANGED <<prEnv, prLoc>>

\* lines 100-103: get_pr_info
WtPrInfo ==
    /\ pc = "pr_info"
    /\ IF ~GhPrView(loc.pr_number)
       THEN ExitError(stderr, "Failed to get PR information") /\ loc' = loc
       ELSE /\ loc' = [loc EXCEPT !.branch_name = TheBranch, !.head_sha = prHead]
            /\ Running("repo_info")
            /\ stderr' = stderr
    /\ UNCHANGED <<argv, stdout>>
    /\ UNCHANGED <<online, remotes, ghRepo, dirs, readme, worktree, untracked, branchHead, prHead,
                   ops, start, prev, runs>>
    /\ UNCHANGED <<prEnv, prLoc>>

\* lines 105-109: get_repo_info, find_remote_for_repo
WtFindRemote ==
    /\ pc = "repo_info"
    /\ IF ~GhRepoView
       THEN ExitError(stderr, "Failed to get repository information") /\ loc' = loc
       ELSE LET r == find_remote_for_repo(remotes, ghRepo.owner, ghRepo.name)
            IN  IF r.raised
                THEN ExitError(stderr, "No remote found") /\ loc' = loc
                ELSE /\ loc' = [loc EXCEPT !.remote_name = r.value]
                     /\ Running("notes")
                     /\ stderr' = stderr
    /\ UNCHANGED <<argv, stdout>>
    /\ UNCHANGED <<online, remotes, ghRepo, dirs, readme, worktree, untracked, branchHead, prHead,
                   ops, start, prev, runs>>
    /\ UNCHANGED <<prEnv, prLoc>>

\* lines 111-185: the directories and the README template
WtNotes ==
    /\ pc = "notes"
    /\ dirs' = dirs \cup {"git-worktrees", "review-notes", "review-notes/branch"}
    /\ IF ReadmeAbsent(readme)
       THEN /\ readme' = "template"
            /\ stderr' = Append(stderr, Line("Info", "Created review notes"))
       ELSE /\ readme' = readme
            /\ stderr' = stderr
    /\ Running("existing")
    /\ UNCHANGED <<argv, stdout>>
    /\ UNCHANGED <<online, remotes, ghRepo, worktree, untracked, branchHead, prHead,
                   loc, ops, start, prev, runs>>
    /\ UNCHANGED <<prEnv, prLoc>>

\* the exception the dirty check of lines 192-198 ends with, "" when none
DirtyCheck(w, u) ==
    IF w = "broken" THEN "InvalidGitRepositoryError"
    ELSE IF u THEN ConflictMsg
    ELSE ""

\* lines 187-205
WtExisting ==
    /\ pc = "existing"
    /\ IF ~WorktreeExists(worktree)
       THEN Running("branch") /\ stderr' = stderr
       ELSE LET e == DirtyCheck(worktree, untracked)
                err1 == Append(stderr, Line("Info", "Worktree already exists"))
                err2 == IF e = "" THEN err1
                        ELSE Append(err1, Line("Warning", "Could not check if worktree is dirty"))
            IN  IF e # "" /\ MentionsUncommitted(e)
                THEN ExitError(err1, e)
                ELSE /\ stderr' = Append(err2, Line("Info", "Removing and recreating"))
                     /\ Running("remove")
    /\ UNCHANGED <<argv, stdout>>
    /\ UNCHANGED wtVars
    /\ UNCHANGED <<prEnv, prLoc>>

NativeOnly(w, rmtree_ok) ==
    [ops |-> <<"worktree remove">>,
     left |-> IF GitWorktreeRemoveOk(w) THEN "absent" ELSE w,
     raised |-> FALSE]

\* lines 207-215: the forced native removal and, when it raises GitCommandError,
\* shutil.rmtree (which may itself raise, e.g. on files it may not delete) and the prune
RemoveWorktree(w, rmtree_ok) ==
    IF GitWorktreeRemoveOk(w)
    THEN [ops |-> <<"worktree remove">>, left |-> "absent", raised |-> FALSE]
    ELSE IF rmtree_ok
    THEN [ops |-> <<"worktree remove", "rmtree", "worktree prune">>,
          left |-> "absent", raised |-> FALSE]
    ELSE [ops |-> <<"worktree remove", "rmtree">>, left |-> w, raised |-> TRUE]

\* lines 207-215
WtRemove ==
    /\ pc = "remove"
    /\ \E rmtree_ok \in BOOLEAN :
        LET r == RemoveWorktree(worktree, rmtree_ok)
        IN  /\ ops' = ops \o r.ops
            /\ worktree' = r.left
            /\ untracked' = (untracked /\ r.left # "absent")
            /\ IF r.raised
               THEN ExitError(stderr, "Permission denied")
               ELSE Running("branch") /\ stderr' = stderr
    /\ UNCHANGED <<argv, stdout>>
    /\ UNCHANGED <<online, remotes, ghRepo, dirs, readme, branchHead, prHead, loc, start, prev, runs>>
    /\ UNCHANGED <<prEnv, prLoc>>

\* lines 219-237
WtFetch ==
    /\ pc = "branch"
    /\ LET deleted == GitBranchDeleteOk(branchHead, worktree)
           head1 == IF deleted THEN 0 ELSE branchHead
           err1 == IF deleted
                   THEN Append(stderr, Line("Info", "Deleted existing local branch"))
                   ELSE stderr
       IN  IF GitFetchOk(head1, worktree)
           THEN /\ branchHead' = prHead
                /\ stderr' = Append(err1, Line("Info", "Created local branch"))
                /\ Running("add")
           ELSE /\ branchHead' = head1
                /\ ExitError(err1, "Failed to create branch")
    /\ ops' = ops \o <<"branch -D", "fetch">>
    /\ UNCHANGED <<argv, stdout>>
    /\ UNCHANGED <<online, remotes, ghRepo, dirs, readme, worktree, untracked, prHead,
                   loc, start, prev, runs>>
    /\ UNCHANGED <<prEnv, prLoc>>

\* lines 239-245
WtAdd ==
    /\ pc = "add"
    /\ ops' = Append(ops, "worktree add")
    /\ IF GitWorktreeAddOk(branchHead, worktree)
       THEN /\ worktree' = "ok"
            /\ untracked' = FALSE
            /\ Running("print")
            /\ stderr' = stderr
       ELSE /\ UNCHANGED <<worktree, untracked>>
            /\ ExitError(stderr, "Failed to create worktree")
    /\ UNCHANGED <<argv, stdout>>
    /\ UNCHANGED <<online, remotes, ghRepo, dirs, readme, branchHead, prHead, loc, start, prev, runs>>
    /\ UNCHANGED <<prEnv, prLoc>>

\* main, lines 257-258, and the normal end of the script
WtPrint ==
    /\ pc = "print"
    /\ stdout' = Append(stdout, "git-worktrees/" \o loc.branch_name)
    /\ exitCode' = 0
    /\ pc' = "done"
    /\ UNCHANGED <<argv, stderr>>
    /\ UNCHANGED wtVars
    /\ UNCHANGED <<prEnv, prLoc>>

(* What happens around the runs *)

Between == pc \in {"idle", "done"}

\* the world moves on: what the ended process held and printed is gone
Forgotten ==
    /\ pc' = "idle"
    /\ argv' = <<>>
    /\ stdout' = <<>>
    /\ stderr' = <<>>
    /\ exitCode' = -1
    /\ loc' = NoLoc
    /\ ops' = <<>>
    /\ start' = NoStart
    /\ prev' = NoPrev

\* the user creates or deletes an untracked file in the working tree
UserTouch ==
    /\ Between
    /\ worktree # "absent"
    /\ untracked' = ~untracked
    /\ Forgotten
    /\ UNCHANGED <<online, remotes, ghRepo, dirs, readme, worktree, branchHead, prHead, runs>>
    /\ UNCHANGED <<prEnv, prLoc>>

\* the working tree's .git link is lost: it no longer opens as a repository
UserBreak ==
    /\ Between
    /\ worktree = "ok"
    /\ worktree' = "broken"
    /\ Forgotten
    /\ UNCHANGED <<online, remotes, ghRepo, dirs, readme, untracked, branchHead, prHead, runs>>
    /\ UNCHANGED <<prEnv, prLoc>>

\* the user writes notes into the README
UserEditReadme ==
    /\ Between
    /\ readme = "template"
    /\ readme' = "edited"
    /\ Forgotten
    /\ UNCHANGED <<online, remotes, ghRepo, dirs, worktree, untracked, branchHead, prHead, runs>>
    /\ UNCHANGED <<prEnv, prLoc>>

\* the PR author pushes
PushToPR ==
    /\ Between
    /\ \E c \in (1..MaxCommit) \ {prHead} : prHead' = c
    /\ Forgotten
    /\ UNCHANGED <<online, remotes, ghRepo, dirs, readme, worktree, untracked, branchHead, runs>>
    /\ UNCHANGED <<prEnv, prLoc>>

\* the network goes away or comes back
NetChange ==
    /\ Between
    /\ online' = ~online
    /\ Forgotten
    /\ UNCHANGED <<remotes, ghRepo, dirs, readme, worktree, untracked, branchHead, prHead, runs>>
    /\ UNCHANGED <<prEnv, prLoc>>

NextWT ==
    \/ WtInvoke \/ WtMain \/ WtOpenRepo \/ WtPrInfo \/ WtFindRemote \/ WtNotes
    \/ WtExisting \/ WtRemove \/ WtFetch \/ WtAdd \/ WtPrint
    \/ UserTouch \/ UserBreak \/ UserEditReadme \/ PushToPR \/ NetChange

SpecWT == InitWT /\ [][NextWT]_vars

----------------------------------------------------------------------------
(* Claims about prepare-worktree.py *)

FoundExisting ==
    \E i \in 1..Len(stderr) : stderr[i] = Line("Info", "Worktree already exists")

ErrorLines(err) == {i \in 1..Len(err) : err[i].tag = "Error"}

\* the run targets the same repository and PR as the run before it
SameTarget(a, b) ==
    /\ Len(a) = 3 /\ Len(b) = 3
    /\ a[2] = b[2]
    /\ IsPyInt(a[3]) /\ IsPyInt(b[3])
    /\ PyInt(a[3]) = PyInt(b[3])

StartedDirty == start.worktree = "ok" /\ start.untracked

\* C2: a run that starts on an existing working tree with uncommitted changes
\* (an untracked file) never removes anything: the working tree and its file
\* stay, no branch deletion, fetch or worktree creation is attempted, and once
\* the run has found the working tree it has ended with the conflict error.
C2_DirtyWorktreeKept ==
    (pc # "idle" /\ StartedDirty) =>
        /\ ops = <<>>
        /\ worktree = "ok" /\ untracked
        /\ branchHead = start.branchHead
        /\ FoundExisting =>
             /\ pc = "done" /\ exitCode = 1 /\ stdout = <<>>
             /\ Last(stderr) = Line("Error", ConflictMsg)

C2_Witness ==
    /\ pc = "done" /\ StartedDirty /\ FoundExisting
    /\ Last(stderr) = Line("Error", ConflictMsg)

InSuccession == prev.valid /\ prev.ok /\ SameTarget(prev.argv, argv) /\ prev.prHead = prHead

\* C3: a run that directly follows a successful run for the same repository
\* and PR (PR head unchanged, working tree left as the first run created it)
\* succeeds too, having removed and recreated the working tree, and leaves the
\* local PR branch at the commit the first run left it at.
C3_Idempotent ==
    (pc = "done" /\ InSuccession) =>
        /\ exitCode = 0
        /\ branchHead = prev.head
        /\ ops[1] = "worktree remove" /\ Last(ops) = "worktree add"
        /\ worktree = "ok" /\ ~untracked

C3_Witness ==
    /\ pc = "done" /\ InSuccession /\ exitCode = 0
    /\ start.worktree = "ok" /\ branchHead = prev.head

\* C4 (as claimed, for invocations with the right number of arguments): a run
\* ends either with exit code 0 and the result on standard output, or with
\* exit code 1, exactly one "Error: <message>" line, the last one on standard
\* error, and nothing on standard output.
C4_FailureIsOneErrorLine ==
    (pc = "done" /\ Len(argv) = 3) =>
        \/ exitCode = 0 /\ Len(stdout) = 1
        \/ /\ exitCode = 1
           /\ stdout = <<>>
           /\ Cardinality(ErrorLines(stderr)) = 1
           /\ Last(stderr).tag = "Error"

\* C10: a README that exists when a run starts has, at every later point of
\* that run and when it has ended (successfully or not), the content it had
\* when the run started.
C10_ReadmePreserved ==
    (pc # "idle" /\ start.readme # "absent") => readme = start.readme

C10_Witness ==
    /\ pc = "done" /\ runs = 2 /\ start.readme = "edited" /\ readme = "edited"
    /\ \E i \in 1..Len(ops) : ops[i] = "fetch"

\* the run found a working tree that the dirty check did not report dirty and
\* has gone past the removal step
PastRemoval ==
    /\ start.worktree # "absent"
    /\ ~StartedDirty
    /\ pc \in {"branch", "add", "print"} \/ (pc = "done" /\ ops # <<>>)

Positions(op) == {i \in 1..Len(ops) : ops[i] = op}

\* C12: in a run that finds a working tree at the target path which the dirty
\* check reports clean or cannot check (then a warning and no error is printed
\* for it), the first git operation is the forced native removal; the recursive
\* deletion happens exactly when the native removal failed and directly after
\* it, the prune directly after the deletion; the branch is deleted and fetched
\* only after these steps, and the target path does not exist when that starts.
C12_RemovedBeforeFetch ==
    /\ PastRemoval =>
        /\ ops[1] = "worktree remove"
        /\ (Positions("rmtree") # {}) <=> ~GitWorktreeRemoveOk(start.worktree)
        /\ Positions("rmtree") \subseteq {2}
        /\ Positions("worktree prune") \subseteq {3}
        /\ Positions("worktree prune") # {} => Positions("rmtree") # {}
        /\ \A i \in Positions("branch -D") \cup Positions("fetch") :
            /\ i > 1
            /\ ~GitWorktreeRemoveOk(start.worktree) => (i > 3 /\ ops[3] = "worktree prune")
        /\ start.worktree = "broken" => \E i \in 1..Len(stderr) : stderr[i].tag = "Warning"
    /\ pc = "branch" => worktree = "absent"

C12_Witness ==
    /\ PastRemoval
    /\ start.worktree = "broken"
    /\ start.untracked
    /\ ops = <<"worktree remove", "rmtree", "worktree prune", "branch -D", "fetch", "worktree add">>
    /\ worktree = "ok"
    /\ exitCode = 0

----------------------------------------------------------------------------
(* summarize-pr.py: pure functions *)

\* Python truthiness of an optional string
Truthy(x) == x # None /\ x # <<>>

\* Python: a or b
PyOr(a, b) == IF Truthy(a) THEN a ELSE b

\* body.split("\n")[0]
FirstLine(s) ==
    LET breaks == {i \in 1..Len(s) : s[i] = "\n"}
    IN  IF breaks = {} THEN s
        ELSE SubSeq(s, 1, (CHOOSE i \in breaks : \A j \in breaks : i <= j) - 1)

\* the slice bound of line 300
PreviewLen == 120

WholeLine(text, n) == text

\* text[:n]
Slice(text, n) == SubSeq(text, 1, IF Len(text) < n THEN Len(text) ELSE n)

\* line 300
Preview(body) == Slice(FirstLine(body), PreviewLen)

\* lines 299-314, the record built for one unresolved thread
ThreadView(thread) ==
    LET first_comment == thread.comments.nodes[1]
    IN  [threadId |-> thread.id,
         isResolved |-> thread.isResolved,
         isOutdated |-> thread.isOutdated,
         author |-> first_comment.author,
         line |-> first_comment.line,
         path |-> first_comment.path,
         preview |-> Preview(first_comment.body),
         commentCount |-> Len(thread.comments.nodes),
         allComments |-> thread.comments.nodes]

\* extract_unresolved_threads, the loop of lines 297-314
RECURSIVE extract_unresolved_threads(_)
extract_unresolved_threads(threads) ==
    IF threads = <<>> THEN <<>>
    ELSE IF ~threads[1].isResolved
         THEN <<ThreadView(threads[1])>> \o extract_unresolved_threads(Tail(threads))
         ELSE extract_unresolved_threads(Tail(threads))

\* Python str < str: lexicographic by character; characters here are digits
RECURSIVE StrLess(_, _)
StrLess(a, b) ==
    IF b = <<>> THEN FALSE
    ELSE IF a = <<>> THEN TRUE
    ELSE IF a[1] = b[1] THEN StrLess(Tail(a), Tail(b))
    ELSE DigitVal(a[1]) < DigitVal(b[1])

\* lines 396-404
CommentItem(comment) ==
    [type |-> "comment", timestamp |-> comment.createdAt, author |-> comment.author,
     body |-> comment.body, state |-> ""]

\* lines 409-417
ReviewItem(review) ==
    [type |-> "review", timestamp |-> review.submittedAt, author |-> review.author,
     body |-> review.body, state |-> review.state]

RECURSIVE MapComments(_)
MapComments(nodes) ==
    IF nodes = <<>> THEN <<>> ELSE <<CommentItem(nodes[1])>> \o MapComments(Tail(nodes))

\* lines 407-417: only reviews with a body
RECURSIVE MapReviews(_)
MapReviews(nodes) ==
    IF nodes = <<>> THEN <<>>
    ELSE IF Truthy(nodes[1].body)
         THEN <<ReviewItem(nodes[1])>> \o MapReviews(Tail(nodes))
         ELSE MapReviews(Tail(nodes))

\* one step of a stable sort: x goes after every item whose key is not greater
RECURSIVE InsertByTimestamp(_, _)
InsertByTimestamp(sorted, x) ==
    IF sorted = <<>> THEN <<x>>
    ELSE IF StrLess(x.timestamp, sorted[1].timestamp)
         THEN <<x>> \o sorted
         ELSE <<sorted[1]>> \o InsertByTimestamp(Tail(sorted), x)

RECURSIVE SortItems(_)
SortItems(items) ==
    IF items = <<>> THEN <<>>
    ELSE InsertByTimestamp(SortItems(SubSeq(items, 1, Len(items) - 1)), items[Len(items)])

NoSort(items) == items

\* list.sort(key=lambda x: x["timestamp"]), line 420, for keys that are all strings
SortByTimestamp(items) == SortItems(items)

\* line 420 raises TypeError when it compares None with anything
SortRaises(items) ==
    Len(items) >= 2 /\ \E i \in 1..Len(items) : items[i].timestamp = None

\* lines 436-442
StateLabel(state) ==
    CASE state = "APPROVED" -> "APPROVED (check mark)"
      [] state = "CHANGES_REQUESTED" -> "CHANGES REQUESTED (red circle)"
      [] state = "COMMENTED" -> "COMMENTED (speech balloon)"
      [] state = "DISMISSED" -> "DISMISSED (cross mark)"
      [] state = "PENDING" -> "PENDING (hourglass)"
      [] OTHER -> state

\* lines 425-453, one rendered timeline entry
RenderItem(item) ==
    [type |-> item.type, author |-> item.author, timestamp |-> item.timestamp,
     label |-> IF item.type = "comment" THEN "" ELSE StateLabel(item.state),
     body |-> item.body]

RECURSIVE RenderItems(_)
RenderItems(items) ==
    IF items = <<>> THEN <<>> ELSE <<RenderItem(items[1])>> \o RenderItems(Tail(items))

\* generate_markdown_summary: the document as its ordered sections
generate_markdown_summary(pr, unresolved_threads) ==
    LET all_timeline_items == MapComments(pr.comments.nodes) \o MapReviews(pr.reviews.nodes)
    IN  IF SortRaises(all_timeline_items)
        THEN [raised |-> TRUE, doc |-> <<>>]
        ELSE [raised |-> FALSE,
              doc |-> [heading |-> pr.number,
                       generalComments |-> Len(pr.comments.nodes),
                       unresolvedCount |-> Len(unresolved_threads),
                       description |-> IF Truthy(pr.body) THEN pr.body ELSE None,
                       files |-> pr.files.nodes,
                       discussion |-> RenderItems(SortByTimestamp(all_timeline_items)),
                       unresolved |-> unresolved_threads]]

----------------------------------------------------------------------------
(* summarize-pr.py: the environment *)

Collections == <<"files", "comments", "reviews", "reviewThreads">>

MaxPages == 2

\* timestamps are fixed-width digit strings, as ISO-8601 instants are
Stamps == <<<<"2", "0">>, <<"1", "0">>, <<"3", "0">>, <<"0", "5">>>>

StampOf(k) == Stamps[((k - 1) % Len(Stamps)) + 1]

FileNode(k) == [path |-> k, additions |-> k, deletions |-> 0]

CommentNode(k) ==
    [id |-> k, author |-> "alice", body |-> <<"c">>, createdAt |-> StampOf(k)]

\* the second review is the viewer's pending review: it has no submittedAt yet
ReviewNode(k) ==
    [id |-> k, author |-> "bob",
     state |-> IF k = 2 THEN "PENDING" ELSE "APPROVED",
     body |-> IF k = 3 THEN <<>> ELSE <<"o", "k">>,
     submittedAt |-> IF k = 2 THEN None ELSE StampOf(k + 1)]

ThreadComment(k, body) ==
    [id |-> k, author |-> "carol", body |-> body, path |-> "a.py", line |-> k]

\* a thread of the server: `more` says its comments do not fit in one page
ThreadNode(k, more) ==
    [id |-> k, isResolved |-> (k % 2 = 0), isOutdated |-> FALSE,
     comments |-> [nodes |-> <<ThreadComment(1, <<"h", "i", "\n", "x">>), ThreadComment(2, <<"y">>)>>,
                   pageInfo |-> [hasNextPage |-> more]]]

NodeOf(c, k, more) ==
    CASE c = "files" -> FileNode(k)
      [] c = "comments" -> CommentNode(k)
      [] c = "reviews" -> ReviewNode(k)
      [] c = "reviewThreads" -> ThreadNode(k, more /\ k = 1)

\* a collection of n nodes, one node per page; an empty collection is one empty page
PagesOf(c, n, more) ==
    IF n = 0 THEN << <<>> >> ELSE [k \in 1..n |-> <<NodeOf(c, k, more)>>]

Servers ==
    { [pages |-> [c \in {"files", "comments", "reviews", "reviewThreads"} |->
                    PagesOf(c, n[c], more)]] :
        n \in [{"files", "comments", "reviews", "reviewThreads"} -> 0..MaxPages],
        more \in BOOLEAN }

CursorName(c) ==
    CASE c = "files" -> "filesCursor"
      [] c = "comments" -> "commentsCursor"
      [] c = "reviews" -> "reviewsCursor"
      [] c = "reviewThreads" -> "threadsCursor"

\* <collection>(first: 100, after: $cursor) { pageInfo nodes }, lines 46-117
Connection(c, cursor) ==
    LET pages == server.pages[c]
        i == cursor + 1
    IN  IF i > Len(pages)
        THEN [nodes |-> <<>>, pageInfo |-> [hasNextPage |-> FALSE, endCursor |-> 0]]
        ELSE [nodes |-> pages[i],
              pageInfo |-> [hasNextPage |-> i < Len(pages), endCursor |-> i]]

\* result["repository"]["pullRequest"] of GRAPHQL_QUERY, lines 28-122
Execute(vs) ==
    [number |-> 7, body |-> <<"d">>,
     files |-> Connection("files", vs.filesCursor),
     comments |-> Connection("comments", vs.commentsCursor),
     reviews |-> Connection("reviews", vs.reviewsCursor),
     reviewThreads |-> Connection("reviewThreads", vs.threadsCursor)]

ValidTokens == {<<"a">>, <<"b">>, <<"c">>}

Environs ==
    [GITHUB_TOKEN : {None, <<>>, <<"a">>}, GH_TOKEN : {None, <<>>, <<"b">>}]

\* `gh auth token`: the binary may be missing, exit non-zero, or print something
GhAuths ==
    { [kind |-> "missing", out |-> <<>>],
      [kind |-> "fail", out |-> <<>>],
      [kind |-> "ok", out |-> <<"c", "\n">>],
      [kind |-> "ok", out |-> <<"\n">>] }

AuthMsg == "No GitHub token found. Please set GITHUB_TOKEN or GH_TOKEN environment variable, or authenticate with 'gh auth login'"

\* get_github_token, lines 163-180
get_github_token(env, gh) ==
    LET tok == PyOr(env.GITHUB_TOKEN, env.GH_TOKEN)
    IN  IF Truthy(tok) THEN [raised |-> FALSE, value |-> tok, msg |-> ""]
        ELSE IF gh.kind = "missing"
        THEN [raised |-> TRUE, value |-> None, msg |-> "[Errno 2] No such file or directory: 'gh'"]
        ELSE IF gh.kind = "fail"
        THEN [raised |-> TRUE, value |-> None, msg |-> AuthMsg]
        ELSE [raised |-> FALSE, value |-> Strip(gh.out), msg |-> ""]

\* paginate_comments, lines 183-203: defined, and called from nowhere
paginate_comments(initial_comments) ==
    [all_comments |-> initial_comments.nodes,
     warning |-> IF initial_comments.pageInfo.hasNextPage
                 THEN <<Line("Warning", "Thread has >100 comments, some may be truncated")>>
                 ELSE <<>>]

----------------------------------------------------------------------------
(* summarize-pr.py: the run *)

SumArgvs ==
    { <<Script, <<"o">>>>,
      <<Script, <<"o">>, <<"r">>, <<"7">>>>,
      <<Script, <<"o">>, <<"r">>, <<"x">>>> }

NoWorktree ==
    /\ online = TRUE
    /\ remotes = <<>>
    /\ ghRepo = TheRepo
    /\ dirs = {}
    /\ readme = "absent"
    /\ worktree = "absent"
    /\ untracked = FALSE
    /\ branchHead = 0
    /\ prHead = 1
    /\ loc = NoLoc
    /\ ops = <<>>
    /\ start = NoStart
    /\ prev = NoPrev
    /\ runs = 0

InitPR ==
    /\ pc = "idle"
    /\ argv = <<>>
    /\ stdout = <<>>
    /\ stderr = <<>>
    /\ exitCode = -1
    /\ NoWorktree
    /\ environ \in Environs
    /\ ghAuth \in GhAuths
    /\ server \in Servers
    /\ NoLocals

\* the shell starts the script
SumInvoke ==
    /\ pc = "idle"
    /\ \E a \in SumArgvs : argv' = a
    /\ pc' = "main"
    /\ UNCHANGED <<stdout, stderr, exitCode, wtVars, prEnv, prLoc>>

\* main, lines 506-513
SumMain ==
    /\ pc = "main"
    /\ IF Len(argv) # 4
       THEN /\ stderr' = Append(stderr, Line("Usage", "summarize-pr.py OWNER REPO PR_NUMBER"))
            /\ exitCode' = 1
            /\ pc' = "done"
            /\ variables' = variables
       ELSE IF ~IsPyInt(argv[4])
       THEN /\ stderr' = Append(stderr, Line("Traceback", "ValueError: invalid literal for int()"))
            /\ exitCode' = 1
            /\ pc' = "done"
            /\ variables' = variables
       ELSE /\ variables' = [NoCursors EXCEPT !.owner = argv[2], !.repo = argv[3],
                                              !.number = PyInt(argv[4])]
            /\ Running("token")
            /\ stderr' = stderr
    /\ UNCHANGED <<argv, stdout, wtVars, prEnv>>
    /\ UNCHANGED <<token, pr_data, all_nodes, page_info, unresolved, requests>>

\* get_pr_data, line 208
SumToken ==
    /\ pc = "token"
    /\ LET r == get_github_token(environ, ghAuth)
       IN  IF r.raised
           THEN ExitError(stderr, r.msg) /\ token' = token
           ELSE token' = r.value /\ Running("query") /\ stderr' = stderr
    /\ UNCHANGED <<argv, stdout, wtVars, prEnv>>
    /\ UNCHANGED <<variables, pr_data, all_nodes, page_info, unresolved, requests>>

\* client.execute raises unless the server accepts the token and the transport holds
Accepted(tok, transport_ok) == tok \in ValidTokens /\ transport_ok

Retried(at) == at

\* an exception of client.execute is caught nowhere in get_pr_data: control
\* goes to main's except clause (lines 522-524), wherever the request was made
Propagated(at) == "done"

\* a request raises: main prints the error and exits, get_pr_data's locals are gone
RequestFails(at) ==
    /\ stderr' = Append(stderr, Line("Error", "request failed"))
    /\ exitCode' = 1
    /\ pc' = Propagated(at)
    /\ pr_data' = NoData
    /\ all_nodes' = <<>>
    /\ page_info' = NoInfo

\* lines 228-233: the initial query
SumQuery ==
    /\ pc = "query"
    /\ requests' = Append(requests, variables)
    /\ \E transport_ok \in BOOLEAN :
        IF Accepted(token, transport_ok)
        THEN /\ pr_data' = Execute(variables)
             /\ all_nodes' = Execute(variables).files.nodes
             /\ page_info' = Execute(variables).files.pageInfo
             /\ Running("files")
             /\ stderr' = stderr
        ELSE RequestFails("query")
    /\ UNCHANGED <<argv, stdout, wtVars, prEnv>>
    /\ UNCHANGED <<token, variables, unresolved>>

Overwrite(acc, nodes) == nodes

\* all_files.extend(page_data["nodes"]), lines 239, 253, 268, 284
Extend(acc, nodes) == acc \o nodes

NoResets(c) == {}

\* the cursors a loop resets to None before each request, lines 250, 264-265, 279-281
Resets(c) ==
    CASE c = "files" -> {}
      [] c = "comments" -> {"filesCursor"}
      [] c = "reviews" -> {"filesCursor", "commentsCursor"}
      [] c = "reviewThreads" -> {"filesCursor", "commentsCursor", "reviewsCursor"}

NextVariables(c) ==
    [f \in DOMAIN variables |->
        IF f = CursorName(c) THEN page_info.endCursor
        ELSE IF f \in Resets(c) THEN 0
        ELSE variables[f]]

\* one iteration of the while loop of collection c
FetchPage(c) ==
    /\ page_info.hasNextPage
    /\ variables' = NextVariables(c)
    /\ requests' = Append(requests, NextVariables(c))
    /\ \E transport_ok \in BOOLEAN :
        IF Accepted(token, transport_ok)
        THEN /\ all_nodes' = Extend(all_nodes, Execute(NextVariables(c))[c].nodes)
             /\ page_info' = Execute(NextVariables(c))[c].pageInfo
             /\ pr_data' = pr_data
             /\ Running(c)
             /\ stderr' = stderr
        ELSE RequestFails(c)
    /\ UNCHANGED <<argv, stdout, wtVars, prEnv>>
    /\ UNCHANGED <<token, unresolved>>

\* the loop of collection c ends: its nodes are stored, the next loop is set up
StoreAll(c, next) ==
    /\ ~page_info.hasNextPage
    /\ pr_data' = [pr_data EXCEPT ![c].nodes = all_nodes]
    /\ IF next = "extract"
       THEN UNCHANGED <<all_nodes, page_info>>
       ELSE /\ all_nodes' = pr_data[next].nodes
            /\ page_info' = pr_data[next].pageInfo
    /\ pc' = next
    /\ UNCHANGED <<argv, stdout, stderr, exitCode, wtVars, prEnv>>
    /\ UNCHANGED <<token, variables, unresolved, requests>>

\* lines 235-240
SumFilesPage ==
    /\ pc = "files"
    /\ FetchPage("files")

\* lines 242-246
SumFilesDone ==
    /\ pc = "files"
    /\ StoreAll("files", "comments")

\* lines 248-254
SumCommentsPage ==
    /\ pc = "comments"
    /\ FetchPage("comments")

\* lines 256-260
SumCommentsDone ==
    /\ pc = "comments"
    /\ StoreAll("comments", "reviews")

\* lines 262-269
SumReviewsPage ==
    /\ pc = "reviews"
    /\ FetchPage("reviews")

\* lines 271-275
SumReviewsDone ==
    /\ pc = "reviews"
    /\ StoreAll("reviews", "reviewThreads")

\* lines 277-285
SumThreadsPage ==
    /\ pc = "reviewThreads"
    /\ FetchPage("reviewThreads")

\* lines 287-289
SumThreadsDone ==
    /\ pc = "reviewThreads"
    /\ StoreAll("reviewThreads", "extract")

\* main, line 517
SumExtract ==
    /\ pc = "extract"
    /\ unresolved' = extract_unresolved_threads(pr_data.reviewThreads.nodes)
    /\ pc' = "render"
    /\ UNCHANGED <<argv, stdout, stderr, exitCode, wtVars, prEnv>>
    /\ UNCHANGED <<token, variables, pr_data, all_nodes, page_info, requests>>

\* main, lines 519-524
SumRender ==
    /\ pc = "render"
    /\ LET r == generate_markdown_summary(pr_data, unresolved)
       IN  IF r.raised
           THEN /\ ExitError(stderr, "'<' not supported between instances of 'NoneType' and 'str'")
                /\ stdout' = stdout
           ELSE /\ stdout' = Append(stdout, r.doc)
                /\ exitCode' = 0
                /\ pc' = "done"
                /\ stderr' = stderr
    /\ UNCHANGED <<argv, wtVars, prEnv, prLoc>>

NextPR ==
    \/ SumInvoke \/ SumMain \/ SumToken \/ SumQuery
    \/ SumFilesPage \/ SumFilesDone \/ SumCommentsPage \/ SumCommentsDone
    \/ SumReviewsPage \/ SumReviewsDone \/ SumThreadsPage \/ SumThreadsDone
    \/ SumExtract \/ SumRender

SpecPR == InitPR /\ [][NextPR]_vars

----------------------------------------------------------------------------
(* Claims about the fetch of summarize-pr.py *)

RECURSIVE Flatten(_)
Flatten(pages) == IF pages = <<>> THEN <<>> ELSE pages[1] \o Flatten(Tail(pages))

Fetched == pc \in {"extract", "render"}

\* C1: when get_pr_data has returned, each of files, comments, reviews and
\* reviewThreads holds exactly the nodes of all of its pages on the server,
\* concatenated in page order.
C1_AllPagesAccumulated ==
    Fetched =>
        \A i \in 1..Len(Collections) :
            pr_data[Collections[i]].nodes = Flatten(server.pages[Collections[i]])

C1_Witness ==
    /\ Fetched
    /\ \A i \in 1..Len(Collections) :
        /\ Len(server.pages[Collections[i]]) = MaxPages
        /\ Len(pr_data[Collections[i]].nodes) = MaxPages

TruncatedThreads ==
    {i \in 1..Len(pr_data.reviewThreads.nodes) :
        pr_data.reviewThreads.nodes[i].comments.pageInfo.hasNextPage}

\* C5 (as claimed): when get_pr_data has returned and a fetched review thread
\* reports more comments than its single page holds, a truncation warning
\* has been printed on standard error.
C5_TruncationWarned ==
    (Fetched /\ TruncatedThreads # {}) =>
        \E i \in 1..Len(stderr) : stderr[i].tag = "Warning"

PassedMain == Len(argv) = 4 /\ IsPyInt(argv[4])

CliToken == IF ghAuth.kind = "ok" THEN Strip(ghAuth.out) ELSE <<>>

\* C6 (as claimed): a returned token is never empty or absent and is
\* GITHUB_TOKEN if set and non-empty, else GH_TOKEN if set and non-empty, else
\* the token of the hosting CLI; and when get_github_token fails, no source
\* yielded a token and the failure is the authentication error.
C6_TokenResolution ==
    /\ token # None =>
        /\ token # <<>>
        /\ token = (IF Truthy(environ.GITHUB_TOKEN) THEN environ.GITHUB_TOKEN
                    ELSE IF Truthy(environ.GH_TOKEN) THEN environ.GH_TOKEN
                    ELSE CliToken)
    /\ (pc = "done" /\ PassedMain /\ token = None) =>
        /\ ~Truthy(environ.GITHUB_TOKEN) /\ ~Truthy(environ.GH_TOKEN) /\ CliToken = <<>>
        /\ Last(stderr) = Line("Error", AuthMsg)

\* the cursor fields of a request that are not None
Carried(vs) ==
    {f \in {"filesCursor", "commentsCursor", "reviewsCursor", "threadsCursor"} : vs[f] # 0}

\* the position in Collections of the collection whose cursor request i carries
Paginating(i) ==
    CHOOSE k \in 1..Len(Collections) : CursorName(Collections[k]) \in Carried(requests[i])

\* the server's latest answer about collection e before request i said it had no more pages
ReportedLast(e, i) ==
    LET asked == {k \in 1..(i - 1) : k = 1 \/ CursorName(e) \in Carried(requests[k])}
        k == CHOOSE m \in asked : \A n \in asked : n <= m
    IN  ~Connection(e, requests[k][CursorName(e)]).pageInfo.hasNextPage

\* C11: get_pr_data paginates files, comments, reviews and review threads
\* strictly one after another in that order: every follow-up request carries
\* the cursor of exactly one collection, the other three being None; the
\* collections of successive follow-up requests never go back in the order; and
\* a request that advances a collection is issued only after every earlier
\* collection has reported hasNextPage false.
C11_OneCollectionAtATime ==
    \A i \in 2..Len(requests) :
        /\ Cardinality(Carried(requests[i])) = 1
        /\ \A j \in 2..(i - 1) : Paginating(j) <= Paginating(i)
        /\ \A k \in 1..(Paginating(i) - 1) : ReportedLast(Collections[k], i)

C11_Witness ==
    /\ Fetched
    /\ Len(requests) = 1 + Len(Collections) * (MaxPages - 1)
    /\ \A k \in 1..Len(Collections) : \E i \in 2..Len(requests) : Paginating(i) = k

RequestFailed == \E i \in 1..Len(stderr) : stderr[i] = Line("Error", "request failed")

\* C13: no retry during the fetch. Once a GraphQL request (the initial query or
\* a page request) has failed, the run has ended with exit status 1 and exactly
\* one error line, nothing is on standard output, the data fetched so far is
\* gone and was never extracted; no request is issued twice, and after the
\* failure no further request is made.
C13_NoRetry ==
    /\ [](RequestFailed =>
            /\ pc = "done"
            /\ exitCode = 1
            /\ stdout = <<>>
            /\ Len(stderr) = 1
            /\ pr_data = NoData /\ all_nodes = <<>> /\ unresolved = <<>>)
    /\ [](\A i, j \in 1..Len(requests) : requests[i] = requests[j] => i = j)
    /\ [][RequestFailed => requests' = requests]_vars

\* a page request fails after two collections were fetched in full
C13_Witness ==
    /\ RequestFailed
    /\ pc = "done"
    /\ Len(requests) = 2 * MaxPages
    /\ Carried(Last(requests)) = {"reviewsCursor"}

----------------------------------------------------------------------------
(* extract_unresolved_threads over enumerated thread lists *)

MaxThreads == 2

Pad(n) == [i \in 1..n |-> "a"]

Bodies ==
    { <<>>,
      <<"b", "\n", "b">>,
      <<"\n", "b">>,
      Pad(PreviewLen - 1),
      Pad(PreviewLen),
      Pad(PreviewLen + 1),
      Pad(PreviewLen + 1) \o <<"\n", "b">>,
      Pad(PreviewLen - 1) \o <<"\n", "b", "b">> }

\* a thread with n comments, the opening one with the given body
ThreadInput(id, resolved, body, n) ==
    [id |-> id, isResolved |-> resolved, isOutdated |-> FALSE,
     comments |-> [nodes |-> [j \in 1..n |-> ThreadComment(j, IF j = 1 THEN body ELSE <<"y">>)],
                   pageInfo |-> [hasNextPage |-> FALSE]]]

\* the lists of at most max threads; threads have one and two comments in turn
ThreadLists(max) ==
    UNION { { [i \in 1..len |-> ThreadInput(i, r[i], b[i], 1 + (i % 2))] :
                r \in [1..len -> BOOLEAN], b \in [1..len -> Bodies] } :
            len \in 0..max }

InitExtract ==
    /\ pc = "extract"
    /\ argv = <<Script, <<"o">>, <<"r">>, <<"7">>>>
    /\ stdout = <<>>
    /\ stderr = <<>>
    /\ exitCode = -1
    /\ NoWorktree
    /\ environ = [GITHUB_TOKEN |-> <<"a">>, GH_TOKEN |-> None]
    /\ ghAuth = [kind |-> "fail", out |-> <<>>]
    /\ server = [pages |-> <<>>]
    /\ token = <<"a">>
    /\ variables = NoCursors
    /\ \E ts \in ThreadLists(MaxThreads) :
        pr_data = [NoData EXCEPT !.number = 7, !.reviewThreads.nodes = ts]
    /\ all_nodes = <<>>
    /\ page_info = NoInfo
    /\ unresolved = <<>>
    /\ requests = <<NoCursors>>

NextExtract == SumExtract \/ SumRender

SpecExtract == InitExtract /\ [][NextExtract]_vars

Unresolved(ts) == {i \in 1..Len(ts) : ~ts[i].isResolved}

\* p is the first line of body, cut to at most PreviewLen characters
IsPreviewOf(p, body) ==
    /\ Len(p) <= PreviewLen
    /\ Len(p) <= Len(body)
    /\ \A k \in 1..Len(p) : p[k] = body[k] /\ p[k] # "\n"
    /\ \/ Len(p) = PreviewLen
       \/ Len(p) = Len(body)
       \/ body[Len(p) + 1] = "\n"

\* C7: the extraction returns one record per unresolved thread and none for a
\* resolved one, in the threads' order; each record's preview is the first
\* line of the thread's opening comment cut to at most 120 characters, and
\* its commentCount is the number of the thread's comments.
C7_UnresolvedThreads ==
    pc \in {"render", "done"} =>
        LET ts == pr_data.reviewThreads.nodes
        IN  /\ Len(unresolved) = Cardinality(Unresolved(ts))
            /\ \A i \in Unresolved(ts) :
                LET v == unresolved[Cardinality({j \in Unresolved(ts) : j <= i})]
                IN  /\ v.threadId = ts[i].id
                    /\ v.isResolved = FALSE
                    /\ IsPreviewOf(v.preview, ts[i].comments.nodes[1].body)
                    /\ v.commentCount = Len(ts[i].comments.nodes)

C7_Witness ==
    /\ pc = "render"
    /\ Len(pr_data.reviewThreads.nodes) = 2
    /\ pr_data.reviewThreads.nodes[1].isResolved
    /\ ~pr_data.reviewThreads.nodes[2].isResolved
    /\ Len(FirstLine(pr_data.reviewThreads.nodes[2].comments.nodes[1].body)) > PreviewLen
    /\ Len(unresolved) = 1
    /\ Len(unresolved[1].preview) = PreviewLen
    /\ unresolved[1].threadId = 2
    /\ unresolved[1].commentCount = 1

----------------------------------------------------------------------------
(* generate_markdown_summary over enumerated comments and reviews *)

MaxItems == 2

TimeStamps == { <<"0", "9">>, <<"1", "0">>, <<"2", "0">> }

CommentInput(k, ts) == [id |-> k, author |-> "alice", body |-> <<"c">>, createdAt |-> ts]

ReviewInput(k, ts, body) ==
    [id |-> k, author |-> "bob", state |-> IF ts = None THEN "PENDING" ELSE "APPROVED",
     body |-> body, submittedAt |-> ts]

CommentLists ==
    UNION { { [i \in 1..len |-> CommentInput(i, t[i])] : t \in [1..len -> TimeStamps] } :
            len \in 0..MaxItems }

ReviewLists ==
    UNION { { [i \in 1..len |-> ReviewInput(i, t[i], b[i])] :
                t \in [1..len -> TimeStamps \cup {None}],
                b \in [1..len -> {<<>>, <<"k">>}] } :
            len \in 0..MaxItems }

InitRender ==
    /\ pc = "render"
    /\ argv = <<Script, <<"o">>, <<"r">>, <<"7">>>>
    /\ stdout = <<>>
    /\ stderr = <<>>
    /\ exitCode = -1
    /\ NoWorktree
    /\ environ = [GITHUB_TOKEN |-> <<"a">>, GH_TOKEN |-> None]
    /\ ghAuth = [kind |-> "fail", out |-> <<>>]
    /\ server = [pages |-> <<>>]
    /\ token = <<"a">>
    /\ variables = NoCursors
    /\ \E cs \in CommentLists, rs \in ReviewLists :
        pr_data = [NoData EXCEPT !.number = 7, !.comments.nodes = cs, !.reviews.nodes = rs]
    /\ all_nodes = <<>>
    /\ page_info = NoInfo
    /\ unresolved = <<>>
    /\ requests = <<NoCursors>>

NextRender == SumRender

SpecRender == InitRender /\ [][NextRender]_vars

Rendered == pc = "done" /\ exitCode = 0 /\ Len(stdout) = 1

ReviewsWithBody == {i \in 1..Len(pr_data.reviews.nodes) : pr_data.reviews.nodes[i].body # <<>>}

----------------------------------------------------------------------------
(* find_remote_for_repo over enumerated remotes and repositories *)

MaxRemotes == 2

Urls ==
    { <<"g", ":", "o", "/", "r">>,
      <<"h", "/", "o", "/", "r", ".", "g">>,
      <<"g", ":", "x", "/", "r">>,
      <<"h", "/", "x", "o", "/", "r", "r">>,
      <<"o", "/">> }

RemoteNames == <<"origin", "upstream", "fork", "mirror">>

RemoteLists ==
    UNION { { [i \in 1..len |-> [name |-> RemoteNames[i], url |-> u[i]]] : u \in [1..len -> Urls] } :
            len \in 0..MaxRemotes }

RepoIds ==
    { [owner |-> <<"o">>, name |-> <<"r">>],
      [owner |-> <<"x">>, name |-> <<"r">>],
      [owner |-> <<"o">>, name |-> <<"q">>] }

InitRemote ==
    /\ pc = "repo_info"
    /\ argv = <<Script, RepoDir, <<"7">>>>
    /\ stdout = <<>>
    /\ stderr = <<>>
    /\ exitCode = -1
    /\ online = TRUE
    /\ remotes \in RemoteLists
    /\ ghRepo \in RepoIds
    /\ dirs = {}
    /\ readme = "absent"
    /\ worktree = "absent"
    /\ untracked = FALSE
    /\ branchHead = 0
    /\ prHead = 1
    /\ loc = [NoLoc EXCEPT !.pr_number = 7, !.branch_name = TheBranch, !.head_sha = 1]
    /\ ops = <<>>
    /\ start = NoStart
    /\ prev = NoPrev
    /\ runs = 1
    /\ NoSummary

NextRemote == WtFindRemote \/ WtNotes

SpecRemote == InitRemote /\ [][NextRemote]_vars

\* the remotes whose URL contains owner/name
Matching == {i \in 1..Len(remotes) : Contains(remotes[i].url, ghRepo.owner \o <<"/">> \o ghRepo.name)}

\* C9: once the remote has been looked up, the result is the name of the
\* first remote, in iteration order, whose URL contains owner/name (so the
\* only one when exactly one matches), and the not-found error when none does.
C9_FirstMatchingRemote ==
    pc # "repo_info" =>
        IF Matching = {}
        THEN pc = "done" /\ exitCode = 1 /\ Last(stderr) = Line("Error", "No remote found")
        ELSE /\ exitCode # 1
             /\ \E i \in Matching :
                  /\ \A j \in Matching : i <= j
                  /\ loc.remote_name = remotes[i].name

C9_Witness ==
    /\ pc = "notes"
    /\ Cardinality(Matching) = 2
    /\ remotes[1].url # remotes[2].url
    /\ loc.remote_name = remotes[1].name

====
